---- MODULE Spec2Model ----
(***************************************************************************)
(* The priscilla broker: the per-connection read task (serve, initialize)  *)
(* and the single dispatcher goroutine that owns the connection table and  *)
(* appends to the active-responder buckets and the help list.              *)
(*                                                                         *)
(* dispatcherChan is unbuffered: a send is a rendezvous with the           *)
(* dispatcher's receive, so a sender stays blocked (pc "hs_send", "send",  *)
(* "eof_send") until the dispatcher takes its request.                     *)
(***************************************************************************)
EXTENDS Integers, Sequences, FiniteSets, TLC

\* ------------------------------------------------------------------ bounds
NumConns == 3       \* connections accepted, each with its own serve task
MaxBusy == 2        \* of these, the connections that send anything in Spec
MaxEnv == 2         \* envelopes decoded after the handshakes, all connections

Conns == 1..NumConns
Busy == 1..MaxBusy

\* A nil *json.Encoder / nil chan string in a dispatcherRequest.
Nil == 0

\* ids that generateId can return (16 hex characters in the program)
GenName == <<"g1", "g2", "g3", "g4", "g5">>
GenIds == {GenName[i] : i \in 1..(NumConns + 1)}

\* conf.Secret and the credential values a client may present
Secret == "s3cret"

VARIABLES
    pc,         \* position of each connection's serve task
    id,         \* serve's local id
    isAdapter,  \* serve's local isAdapter
    sq,         \* serve's local q: the envelope decoded last, as rewritten
    errlog,     \* the lines serve's logger.Error has printed, per connection
    decoded,    \* history: envelopes decoded after the handshake
    connMap,    \* dispatcher's connMap: id -> encoder (the connection index)
    prefixAResponders, noPrefixAResponders, mentionAResponders,
    unhandledAResponders,
    help,
    sink,       \* per connection: envelopes passed to its encoder.Encode
    wire,       \* per connection: envelopes that reached the open socket
    dpc,        \* dispatcher position: "recv", "encode", "blocked", "fatal"
    dout,       \* the Encode the dispatcher still has to do after the reply
    tasks       \* go cmd.handleCommand / go q.Message.handleMessage running

vars == <<pc, id, isAdapter, sq, errlog, decoded, connMap,
          prefixAResponders, noPrefixAResponders, mentionAResponders,
          unhandledAResponders, help, sink, wire, dpc, dout, tasks>>

buckets == <<prefixAResponders, noPrefixAResponders, mentionAResponders,
             unhandledAResponders>>

\* ---------------------------------------------------------------- envelopes
\* query: Type, Source, To and the payload present (Message, Command or
\* neither); the commandBlock fields are "" / <<>> when there is no command.
\* text is the chat text of the Message payload ("" where the model does not
\* tell texts apart). origin is history: the connection whose read task
\* submitted the envelope (0: built by the dispatcher or by an invocation
\* task).
Query(type, source, to, payload, action, ctype, cid, data, array, options) ==
    [type |-> type, source |-> source, to |-> to, payload |-> payload,
     action |-> action, ctype |-> ctype, cid |-> cid, data |-> data,
     array |-> array, options |-> options, text |-> "", origin |-> 0]

Message(source, to) ==
    Query("message", source, to, "message", "", "", "", "", <<>>, <<>>)

\* a message with the chat text given
Text(source, to, text) == [Message(source, to) EXCEPT !.text = text]

Command(source, to, action, ctype, data) ==
    Query("command", source, to, "command", action, ctype, "", data, <<>>, <<>>)

Register(source, to, ctype, data, array, options) ==
    Query("command", source, to, "command", "register", ctype, "r1", data,
          array, options)

\* new(query): nothing decoded into it
NoQuery == Query("", "", "", "none", "", "", "", "", <<>>, <<>>)

\* dispatcherRequest
Request(q, enc, resp) == [q |-> q, enc |-> enc, resp |-> resp]

\* ------------------------------------------------- checks on an envelope
\* q.validate(): the envelope carries the one payload its type names.
Validate(q) ==
    \/ q.type = "message" /\ q.payload = "message"
    \/ q.type = "command" /\ q.payload = "command"

\* q.checkEngagement(): the first envelope must be an engage command.
CheckEngagement(q) ==
    q.type = "command" /\ q.payload = "command" /\ q.action = "engage"

\* cmd.engageChk(source, secret): the error for a credential that does not
\* prove the shared secret, "" (nil) for one that does
EngageChk(q, secret) == IF q.data = secret THEN "" ELSE "engagement refused"

\* regexp.Compile(cmd.Data) succeeds
Compiles(pattern) == pattern \in {"^hi", "^yo$"}

Classes == {"prefix", "noprefix", "mention", "unhandled"}

\* cmd.registerChk(): pattern in data, responder id in id, help command
\* and help text as the two elements of array, a known classification.
RegisterChk(q) ==
    /\ q.data # ""
    /\ q.cid # ""
    /\ Len(q.array) = 2
    /\ q.ctype \in Classes

\* ------------------------------------------------------- what clients write
\* the first envelope a client writes
FirstEnvs ==
    {Command(s, "", "engage", t, Secret) :
        s \in {"", "a"}, t \in {"adapter", "responder"}}
    \cup {Command("g1", "", "engage", "responder", Secret),
          Command("a", "", "engage", "responder", "wrong"),
          Message("a", "")}

\* the envelopes a client writes after its handshake
LaterEnvs ==
    {Message("spoof", t) : t \in {"", "server", "a"}}
    \cup {Command("spoof", "a", x, "", "") : x \in {"info", "exec", "disengage"}}
    \cup {Command("", "a", "engage", "", d) : d \in {Secret, "wrong"}}
    \cup {Register("", "server", "prefix", "^hi", <<"hi", "says hi">>,
                   <<"fallthrough">>),
          Register("", "server", "noprefix", "^yo$", <<"yo", "says yo">>, <<>>),
          Register("", "server", "mention", "^hi", <<"hi", "says hi">>, <<>>),
          Register("", "server", "unhandled", "^yo$", <<"yo", "says yo">>,
                   <<"quiet", "fallthrough">>),
          Register("", "server", "prefix", "(", <<"hi", "says hi">>, <<>>),
          Register("", "server", "mention", "^hi", <<"hi">>, <<>>)}
    \cup {Query("message", "", "a", "none", "", "", "", "", <<>>, <<>>)}

\* the chat texts the clients of SpecOrder write: the k-th envelope decoded,
\* over all connections, carries the k-th text
TextName == <<"m1", "m2", "m3", "m4">>

\* the first envelopes the clients of SpecOrder write
OrderFirstEnvs ==
    {Command(s, "", "engage", "responder", Secret) : s \in {"", "a"}}

\* ------------------------------------------------------------------- serve
\* the client's source kept when it gives one
ServeSource_KeepClient(q, cid) == IF q.source = "" THEN cid ELSE q.source

\* serve, line 378: the source the forwarded envelope carries
ServeSource(q, cid) == cid

\* the client's to kept for an adapter as well
ServeTo_Keep(q, adapter) == q.to

\* serve, lines 382-387: the to the forwarded envelope carries
ServeTo(q, adapter) ==
    IF adapter /\ (q.type # "command" \/ q.action # "info") THEN "" ELSE q.to

\* serve, lines 378-387: the envelope as the read task rewrites it
ServeRewrite(q, cid, adapter, c) ==
    [q EXCEPT !.source = ServeSource(q, cid), !.to = ServeTo(q, adapter),
              !.origin = c]

\* the register check on adapters left out
ServeForwards_AdapterRegister(q, adapter) ==
    /\ Validate(q)
    /\ adapter \/ (q.to # "" /\ ~(q.type = "message" /\ q.to = "server"))

\* the checks on a responder's to left out
ServeForwards_NoToCheck(q, adapter) ==
    /\ Validate(q)
    /\ adapter => ~(q.type = "command" /\ q.action = "register")

\* serve, lines 375 and 389-407: whether the read task forwards the envelope q
\* (as the client wrote it) to the dispatcher
ServeForwards(q, adapter) ==
    /\ Validate(q)
    /\ IF adapter
         THEN ~(q.type = "command" /\ q.action = "register")
         ELSE /\ q.to # ""
              /\ ~(q.type = "message" /\ q.to = "server")

\* serve, lines 392, 400, 404 and 413: what logger.Error prints for q
ServeError(q, adapter) ==
    IF ~Validate(q) THEN {"Failed to validate query"}
    ELSE IF adapter
      THEN IF q.type = "command" /\ q.action = "register"
             THEN {"Adapter cannot register commands"} ELSE {}
      ELSE IF q.to = "" THEN {"Responder query missing 'to' field"}
           ELSE IF q.type = "message" /\ q.to = "server"
                  THEN {"Responder message cannot target 'server'"} ELSE {}

\* -------------------------------------------------------------- dispatcher
EmptyMap == [k \in {} |-> Nil]

\* the collision loop left out: a requested id is taken as it is
AssignIds_NoLoop(src, tbl) ==
    IF src # "" THEN {src} ELSE GenIds \ DOMAIN tbl

\* the collision loop run once: the generated id is not looked up again
AssignIds_Once(src, tbl) ==
    IF src # "" /\ src \notin DOMAIN tbl THEN {src} ELSE GenIds

\* dispatcher, lines 52-63: the ids the engage branch can end up with for a
\* request whose source is src: the requested one when it is given and free,
\* otherwise any generated id the collision loop lets through
AssignIds(src, tbl) ==
    IF src # "" /\ src \notin DOMAIN tbl
      THEN {src}
      ELSE GenIds \ DOMAIN tbl

\* dispatcher, line 65: connMap[id] = req.Encoder
Install(tbl, newid, enc) ==
    [k \in DOMAIN tbl \cup {newid} |-> IF k = newid THEN enc ELSE tbl[k]]

\* dispatcher, lines 103-105: delete(connMap, q.Source) unless it is empty
Disengage(tbl, src) ==
    IF src # "" THEN [k \in DOMAIN tbl \ {src} |-> tbl[k]] ELSE tbl

\* the proceed command without the assigned id as data
Proceed_NoData(newid) == Command("server", newid, "proceed", "", "")

\* dispatcher, lines 77-85: the proceed command
Proceed(newid) == Command("server", newid, "proceed", "", newid)

\* the terminate command without the reason
Terminate_NoReason(src, err) == Command("server", src, "terminate", "", "")

\* dispatcher, lines 91-99: the terminate command; err is err.Error()
Terminate(src, err) == Command("server", src, "terminate", "", err)

\* the envelope written ahead of what the encoder was given before
Written_Overtake(log, targets, q) ==
    [c \in Conns |-> IF c \in targets THEN <<q>> \o log[c] ELSE log[c]]

\* a message for an unknown id handed to every connection
Route_Broadcast(tbl, to) ==
    IF to \in DOMAIN tbl THEN {tbl[to]} ELSE {tbl[k] : k \in DOMAIN tbl}

\* dispatcher, lines 158-162: the encoders a directed message is written to
Route(tbl, to) == IF to \in DOMAIN tbl THEN {tbl[to]} ELSE {}

\* dispatcher, lines 35-168: the branch taken for a request
Branch(req) ==
    LET q == req.q IN
    IF ~Validate(q) THEN "invalid"
    ELSE IF q.type = "command" THEN
        CASE q.action = "engage" ->
                IF req.enc = Nil THEN "fatal"
                ELSE IF EngageChk(q, Secret) = "" THEN "engage" ELSE "refuse"
          [] q.action = "disengage" -> "disengage"
          [] q.action = "register" -> "register"
          [] OTHER -> "command"
    ELSE IF q.to # "" /\ q.to # "server" THEN "directed" ELSE "chat"

\* the continue after a failed regexp.Compile left out
RegisterOk_NoCompile(q) == RegisterChk(q)

\* dispatcher, lines 109-115: the register command is accepted
RegisterOk(q) == RegisterChk(q) /\ Compiles(q.data)

\* dispatcher, lines 110-124: the activeResponderConfig built
ActiveResponder(q) ==
    [regex |-> q.data, source |-> q.source, id |-> q.cid,
     matchNext |-> \E i \in 1..Len(q.options) : q.options[i] = "fallthrough",
     helpCmd |-> q.array[1], help |-> q.array[2]]

\* dispatcher, lines 126-143: the helpInfo built
HelpMsg(q) ==
    [helpCmd |-> q.array[1], helpMsg |-> q.array[2],
     noPrefix |-> q.ctype = "noprefix", mention |-> q.ctype = "mention"]

\* a bucket that a disengage prunes of the registrations of its source
BucketAfter_Prune(bucket, cls, req) ==
    IF Branch(req) = "disengage"
      THEN SelectSeq(bucket, LAMBDA ar : ar.source # req.q.source)
      ELSE IF Branch(req) = "register" /\ RegisterOk(req.q) /\ req.q.ctype = cls
             THEN Append(bucket, ActiveResponder(req.q))
             ELSE bucket

\* the matcher pushed at the front of its bucket
BucketAfter_Front(bucket, cls, req) ==
    IF Branch(req) = "register" /\ RegisterOk(req.q) /\ req.q.ctype = cls
      THEN <<ActiveResponder(req.q)>> \o bucket
      ELSE bucket

\* dispatcher, lines 131-145: a bucket after a register command of class cls
BucketAfter(bucket, cls, req) ==
    IF Branch(req) = "register" /\ RegisterOk(req.q) /\ req.q.ctype = cls
      THEN Append(bucket, ActiveResponder(req.q))
      ELSE bucket

\* the help entry pushed as it was built, noPrefix and mention never set
HelpAfter_NoFlags(h, req) ==
    IF /\ Branch(req) = "register" /\ RegisterOk(req.q)
       /\ req.q.ctype \in {"prefix", "noprefix", "mention"}
      THEN Append(h, [HelpMsg(req.q) EXCEPT !.noPrefix = FALSE,
                                            !.mention = FALSE])
      ELSE h

\* dispatcher, lines 131-142: the help list after the request
HelpAfter(h, req) ==
    IF /\ Branch(req) = "register" /\ RegisterOk(req.q)
       /\ req.q.ctype \in {"prefix", "noprefix", "mention"}
      THEN Append(h, HelpMsg(req.q))
      ELSE h

\* dispatcher, lines 65 and 104: connMap after the request
ConnMapAfter(tbl, req, newid) ==
    CASE Branch(req) = "engage" -> Install(tbl, newid, req.enc)
      [] Branch(req) = "disengage" -> Disengage(tbl, req.q.source)
      [] OTHER -> tbl

\* the ids to choose the assigned id from ({""}: the request assigns none)
NewIds(req, tbl) ==
    IF Branch(req) = "engage" THEN AssignIds(req.q.source, tbl) ELSE {""}

\* serve, line 367: conn.Close() was called on connection c
Closed(c) == pc[c] = "closed"

\* encoder.Encode(q) on each encoder of targets
Written(log, targets, q) ==
    [c \in Conns |-> IF c \in targets THEN Append(log[c], q) ELSE log[c]]

NoOut == [enc |-> Nil, q |-> NoQuery]

\* go cmd.handleCommand(q.Source, request) / go q.Message.handleMessage(...)
\* (n and the origin of the request tell the running tasks apart; out is the
\* envelope the task is blocked sending, NoQuery while it has none; scanning:
\* the task is in its pass over the responder lists and the help list)
Spawned(req, n) ==
    CASE Branch(req) = "command" ->
            {[n |-> n, of |-> req.q.origin, kind |-> "cmd",
              src |-> req.q.source, out |-> NoQuery, scanning |-> FALSE]}
      [] Branch(req) = "chat" ->
            {[n |-> n, of |-> req.q.origin, kind |-> "msg",
              src |-> req.q.source, out |-> NoQuery, scanning |-> FALSE]}
      [] OTHER -> {}

\* One pass of the dispatcher's loop on request req, up to the point where it
\* is back at the receive, or has handed the id to initialize and still has
\* to close the reply channel and Encode, or blocks sending on a nil reply
\* channel, or has called logger.Error.Fatal.
Handle(req, newid, running) ==
    LET b == Branch(req)
        targets == IF b = "directed" THEN Route(connMap, req.q.to) ELSE {}
    IN
    /\ dpc = "recv"
    /\ connMap' = ConnMapAfter(connMap, req, newid)
    /\ prefixAResponders' = BucketAfter(prefixAResponders, "prefix", req)
    /\ noPrefixAResponders' = BucketAfter(noPrefixAResponders, "noprefix", req)
    /\ mentionAResponders' = BucketAfter(mentionAResponders, "mention", req)
    /\ unhandledAResponders' = BucketAfter(unhandledAResponders, "unhandled", req)
    /\ help' = HelpAfter(help, req)
    /\ sink' = Written(sink, targets, req.q)
    /\ wire' = Written(wire, {c \in targets : ~Closed(c)}, req.q)
    /\ tasks' = running \cup Spawned(req, decoded)
    /\ dpc' = CASE b = "fatal" -> "fatal"
                [] b \in {"engage", "refuse"} ->
                      IF req.resp = Nil THEN "blocked" ELSE "encode"
                [] OTHER -> "recv"
    /\ dout' = CASE b = "engage" /\ req.resp # Nil ->
                      [enc |-> req.enc, q |-> Proceed(newid)]
                 [] b = "refuse" /\ req.resp # Nil ->
                      [enc |-> req.enc,
                       q |-> Terminate(req.q.source, EngageChk(req.q, Secret))]
                 [] OTHER -> NoOut

\* ---------------------------------------------------------- initial state
\* main, lines 250-261: the help entries of the configured passive responder
InitHelp ==
    <<[helpCmd |-> "ping", helpMsg |-> "pong", noPrefix |-> FALSE,
       mention |-> FALSE]>>

Init ==
    /\ pc = [c \in Conns |-> "first"]
    /\ id = [c \in Conns |-> ""]
    /\ isAdapter = [c \in Conns |-> FALSE]
    /\ sq = [c \in Conns |-> NoQuery]
    /\ errlog = [c \in Conns |-> {}]
    /\ decoded = 0
    /\ connMap = EmptyMap
    /\ prefixAResponders = <<>>
    /\ noPrefixAResponders = <<>>
    /\ mentionAResponders = <<>>
    /\ unhandledAResponders = <<>>
    /\ help = InitHelp
    /\ sink = [c \in Conns |-> <<>>]
    /\ wire = [c \in Conns |-> <<>>]
    /\ dpc = "recv"
    /\ dout = NoOut
    /\ tasks = {}

servVars == <<pc, id, isAdapter, sq, errlog, decoded>>

dispVars == <<connMap, prefixAResponders, noPrefixAResponders,
              mentionAResponders, unhandledAResponders, help, sink, wire, dpc,
              dout, tasks>>

\* ----------------------------------------------------------- the read task
Sending == {"hs_send", "send", "eof_send"}

\* the dispatcherRequest connection c's read task is blocked sending:
\* initialize lines 429-433, serve lines 408-411, serve lines 351-359
Pending(c) ==
    CASE pc[c] = "hs_send" -> Request(sq[c], c, c)
      [] pc[c] = "send" -> Request(sq[c], c, Nil)
      [] pc[c] = "eof_send" ->
            Request([Command(id[c], "", "disengage", "", "") EXCEPT
                        !.origin = c], Nil, Nil)

\* serve, lines 363-369 with initialize, lines 423-433: the first envelope
\* decoded; initialize either fails checkEngagement or blocks sending the
\* handshake request.
ServeFirst(c, e) ==
    /\ pc[c] = "first"
    /\ sq' = [sq EXCEPT ![c] = [e EXCEPT !.origin = c]]
    /\ pc' = [pc EXCEPT ![c] = IF CheckEngagement(e) THEN "hs_send" ELSE "hs_fail"]
    /\ UNCHANGED <<id, isAdapter, errlog, decoded>>
    /\ UNCHANGED dispVars

\* serve, lines 365-368: initialize returned an error: conn.Close(); break
ServeClose(c) ==
    /\ pc[c] = "hs_fail"
    /\ pc' = [pc EXCEPT ![c] = "closed"]
    /\ UNCHANGED <<id, isAdapter, sq, errlog, decoded>>
    /\ UNCHANGED dispVars

\* serve, lines 374-415: an envelope decoded after the handshake
ServeNext(c, e) ==
    /\ pc[c] = "run"
    /\ decoded < MaxEnv
    /\ decoded' = decoded + 1
    /\ sq' = [sq EXCEPT ![c] = IF Validate(e)
                                 THEN ServeRewrite(e, id[c], isAdapter[c], c)
                                 ELSE [e EXCEPT !.origin = c]]
    /\ pc' = [pc EXCEPT ![c] = IF ServeForwards(e, isAdapter[c])
                                 THEN "send" ELSE "run"]
    /\ errlog' = [errlog EXCEPT ![c] = @ \cup ServeError(e, isAdapter[c])]
    /\ UNCHANGED <<id, isAdapter>>
    /\ UNCHANGED dispVars

\* serve, lines 345-361: end of stream: q is a fresh query, the disengage
\* request is sent, then break
ServeEOF(c) ==
    /\ pc[c] \in {"first", "run"}
    /\ pc' = [pc EXCEPT ![c] = "eof_send"]
    /\ sq' = [sq EXCEPT ![c] = NoQuery]
    /\ UNCHANGED <<id, isAdapter, errlog, decoded>>
    /\ UNCHANGED dispVars

\* ---------------------------------------------------- dispatcher's receive
\* dispatcher line 32 meets connection c's send (serve lines 351 and 408,
\* initialize line 429); for a handshake request the step runs on to the
\* reply, where initialize (line 435) takes the id from resp.
DispRecv(c) ==
    /\ pc[c] \in Sending
    /\ \E newid \in NewIds(Pending(c), connMap) :
        LET req == Pending(c)
            b == Branch(req)
        IN
        /\ Handle(req, newid, tasks)
        /\ pc' = [pc EXCEPT ![c] =
                    CASE pc[c] = "send" -> "run"
                      [] pc[c] = "eof_send" -> "done"
                      [] OTHER -> CASE b = "engage" -> "run"
                                    [] b = "refuse" -> "hs_fail"
                                    [] OTHER -> "hs_wait"]
        /\ id' = [id EXCEPT ![c] =
                    IF pc[c] = "hs_send" /\ b = "engage" THEN newid ELSE @]
        /\ isAdapter' = [isAdapter EXCEPT ![c] =
                    IF pc[c] = "hs_send" /\ b = "engage"
                      THEN req.q.ctype = "adapter" ELSE @]
    /\ UNCHANGED <<sq, errlog, decoded>>

\* dispatcher, lines 75-85 and 89-99: close(req.EngageResp), then Encode
DispEncode ==
    /\ dpc = "encode"
    /\ sink' = Written(sink, {dout.enc}, dout.q)
    /\ wire' = Written(wire, {c \in {dout.enc} : ~Closed(c)}, dout.q)
    /\ dpc' = "recv"
    /\ dout' = NoOut
    /\ UNCHANGED servVars
    /\ UNCHANGED <<connMap, prefixAResponders, noPrefixAResponders,
                   mentionAResponders, unhandledAResponders, help, tasks>>

\* -------------------------------------------------------- invocation tasks
\* the envelopes an invocation task may submit to the channel it was given:
\* a reply to the source, or the chat message handed to a registered
\* responder
FollowUps(t) ==
    {Message("server", t.src)}
    \cup IF t.kind = "msg"
           THEN {Message(t.src, prefixAResponders[i].source) :
                    i \in DOMAIN prefixAResponders}
           ELSE {}

\* handleMessage starts its pass over the package-level lists: the
\* responder buckets of the message's kind and, for a help query, help
TaskScan(t) ==
    /\ t.kind = "msg" /\ ~t.scanning /\ t.out = NoQuery
    /\ tasks' = (tasks \ {t}) \cup {[t EXCEPT !.scanning = TRUE]}
    /\ UNCHANGED servVars
    /\ UNCHANGED <<connMap, prefixAResponders, noPrefixAResponders,
                   mentionAResponders, unhandledAResponders, help, sink, wire,
                   dpc, dout>>

\* an invocation task blocks sending an envelope on the channel; a
\* handleMessage task does so from inside its pass, for the entry it is at
TaskSend(t, e) ==
    /\ t.out = NoQuery
    /\ t.kind = "msg" => t.scanning
    /\ tasks' = (tasks \ {t}) \cup {[t EXCEPT !.out = e]}
    /\ UNCHANGED servVars
    /\ UNCHANGED <<connMap, prefixAResponders, noPrefixAResponders,
                   mentionAResponders, unhandledAResponders, help, sink, wire,
                   dpc, dout>>

\* dispatcher line 32 meets the send of invocation task t, which then ends
DispRecvTask(t) ==
    /\ t.out # NoQuery
    /\ Handle(Request(t.out, Nil, Nil), "", tasks \ {t})
    /\ UNCHANGED servVars

\* an invocation task ends without submitting anything
TaskEnd(t) ==
    /\ t.out = NoQuery
    /\ tasks' = tasks \ {t}
    /\ UNCHANGED servVars
    /\ UNCHANGED <<connMap, prefixAResponders, noPrefixAResponders,
                   mentionAResponders, unhandledAResponders, help, sink, wire,
                   dpc, dout>>

\* ----------------------------------------------------------- specifications
\* MaxBusy connections, with everything they can send after the handshake
Next ==
    \/ \E c \in Busy, e \in FirstEnvs : ServeFirst(c, e)
    \/ \E c \in Conns : ServeClose(c)
    \/ \E c \in Conns, e \in LaterEnvs : ServeNext(c, e)
    \/ \E c \in Busy : ServeEOF(c)
    \/ \E c \in Conns : DispRecv(c)
    \/ DispEncode
    \/ \E t \in tasks : TaskScan(t)
    \/ \E t \in tasks : \E e \in FollowUps(t) : TaskSend(t, e)
    \/ \E t \in tasks : DispRecvTask(t)
    \/ \E t \in tasks : TaskEnd(t)

Spec == Init /\ [][Next]_vars

\* NumConns connections that engage and reach end of stream, and send
\* nothing in between
NextEngage ==
    \/ \E c \in Conns, e \in FirstEnvs : ServeFirst(c, e)
    \/ \E c \in Conns : ServeClose(c)
    \/ \E c \in Conns : ServeEOF(c)
    \/ \E c \in Conns : DispRecv(c)
    \/ DispEncode

SpecEngage == Init /\ [][NextEngage]_vars

\* NumConns responders that engage, send messages to "a" and reach end of
\* stream
NextOrder ==
    \/ \E c \in Conns, e \in OrderFirstEnvs : ServeFirst(c, e)
    \/ \E c \in Conns : ServeNext(c, Text("spoof", "a", TextName[decoded + 1]))
    \/ \E c \in Conns : ServeEOF(c)
    \/ \E c \in Conns : DispRecv(c)
    \/ DispEncode

SpecOrder == Init /\ [][NextOrder]_vars

\* The scheduling the Go runtime gives: a goroutine that can run does run.
\* The dispatcher, back at its receive, takes the request of a blocked sender
\* (the senders blocked on a channel are served first come first served; the
\* requests are finitely many here, so weak fairness per sender is enough),
\* does the Encode it has left, and a read task whose initialize failed goes
\* on to conn.Close(). Nothing makes a client write, reach end of stream, or
\* an invocation task submit anything.
Fairness ==
    /\ \A c \in Conns : WF_vars(DispRecv(c))
    /\ \A c \in Conns : WF_vars(ServeClose(c))
    /\ WF_vars(DispEncode)
    /\ WF_vars(\E t \in tasks : DispRecvTask(t))

SpecLive == Init /\ [][Next]_vars /\ Fairness

\* ------------------------------------------------------------------ claims
\* the dispatcher's receive met connection c's send in this step
Takes(c) == pc[c] \in Sending /\ pc'[c] # pc[c]

Engaged == {c \in Conns : id[c] # ""}

\* C1: an accepted engage request installs exactly one new key, bound to the
\* requester's encoder and handed to initialize; the key was not in the table
\* before; it is a generated id, different from the requested one, when the
\* request gives no id or an id that is already a key; every entry that was
\* in the table is still bound to the same encoder.
C1_EngageFreshId ==
    [][\A c \in Conns :
        (Takes(c) /\ Branch(Pending(c)) = "engage") =>
            LET src == Pending(c).q.source
                new == DOMAIN connMap' \ DOMAIN connMap
            IN
            /\ Cardinality(new) = 1
            /\ \A k \in new : /\ connMap'[k] = c
                              /\ pc[c] = "hs_send" => id'[c] = k
            /\ (src = "" \/ src \in DOMAIN connMap) =>
                    (new \subseteq GenIds /\ src \notin new)
            /\ \A k \in DOMAIN connMap :
                    k \in DOMAIN connMap' /\ connMap'[k] = connMap[k]]_vars

\* C1 witness: one connection holds "a", another asked for "a" and holds a
\* generated id, both are in the table
C1_Witness ==
    \E c, d \in Conns :
        /\ c # d
        /\ id[c] = "a" /\ "a" \in DOMAIN connMap /\ connMap["a"] = c
        /\ pc[d] = "run" /\ sq[d].action = "engage" /\ sq[d].source = "a"
        /\ id[d] \in GenIds /\ id[d] \in DOMAIN connMap /\ connMap[id[d]] = d

\* the id connection c asked for in its engage command (sq still holds it
\* while c has decoded nothing else)
Requested(c) == sq[c].source

\* C2: as long as every engaged connection is still connected: when the
\* engaged connections asked for pairwise distinct ids, each holds the id it
\* asked for; when they all asked for the same id, exactly one holds it and
\* the others hold pairwise distinct generated ids.
C2_ConcurrentEngage ==
    (\A c \in Engaged : pc[c] = "run" /\ sq[c].action = "engage") =>
        /\ ( /\ \A c \in Engaged : Requested(c) # ""
             /\ \A c, d \in Engaged : c # d => Requested(c) # Requested(d) )
           => \A c \in Engaged : id[c] = Requested(c)
        /\ ( /\ \A c \in Engaged : Requested(c) # ""
             /\ \A c, d \in Engaged : Requested(c) = Requested(d) )
           => /\ \A c \in Engaged :
                    Cardinality({d \in Engaged : id[d] = Requested(c)}) = 1
              /\ \A c \in Engaged :
                    id[c] # Requested(c) => id[c] \in GenIds
              /\ \A c, d \in Engaged : c # d => id[c] # id[d]

\* C2 witness: three connections asked for "a" and are all engaged
C2_Witness ==
    /\ Cardinality(Engaged) >= 3
    /\ \A c \in Engaged : pc[c] = "run" /\ Requested(c) = "a"

\* C3: once initialize has the id: until the dispatcher has encoded, nothing
\* was written to the encoder, the proceed command is what it is about to
\* write and the table maps the id to the encoder; afterwards the first
\* envelope written to the encoder is the proceed command from "server", to
\* the id, with the id as data.
C3_ProceedFirst ==
    \A c \in Conns :
        id[c] # "" =>
            IF dpc = "encode" /\ dout.enc = c
              THEN /\ sink[c] = <<>>
                   /\ id[c] \in DOMAIN connMap /\ connMap[id[c]] = c
                   /\ dout.q = Command("server", id[c], "proceed", "", id[c])
              ELSE /\ sink[c] # <<>>
                   /\ sink[c][1] = Command("server", id[c], "proceed", "", id[c])

\* C3 witness: an engaged connection to which a message was forwarded after
\* the proceed command
C3_Witness ==
    \E c \in Conns :
        /\ id[c] # "" /\ Len(sink[c]) >= 2
        /\ sink[c][1].action = "proceed" /\ sink[c][2].type = "message"

\* the handshake of connection c was refused for its credential
Refused(c) ==
    /\ pc[c] \in {"hs_fail", "closed"}
    /\ CheckEngagement(sq[c])
    /\ EngageChk(sq[c], Secret) # ""

\* C4: a handshake request with a bad credential leaves the table unchanged
\* and hands "" to initialize; the terminate command with the reason as data
\* is the one envelope written to the encoder; the read task holds no id, has
\* no table entry and never sends a request again.
C4_RefusedEngage ==
    /\ [](\A c \in Conns :
            Refused(c) =>
                LET t == IF dpc = "encode" /\ dout.enc = c
                           THEN <<dout.q>> ELSE sink[c]
                IN
                /\ id[c] = ""
                /\ \A k \in DOMAIN connMap : connMap[k] # c
                /\ (dpc = "encode" /\ dout.enc = c) => sink[c] = <<>>
                /\ Len(t) = 1
                /\ t[1].type = "command" /\ t[1].action = "terminate"
                /\ t[1].source = "server" /\ t[1].to = sq[c].source
                /\ t[1].data = EngageChk(sq[c], Secret))
    /\ [][\A c \in Conns :
            /\ (Takes(c) /\ pc[c] = "hs_send" /\ Branch(Pending(c)) = "refuse")
                   => (connMap' = connMap /\ id'[c] = "" /\ pc'[c] = "hs_fail")
            /\ pc[c] \in {"hs_fail", "closed"}
                   => pc'[c] \in {"hs_fail", "closed"}]_vars

\* C4 witness: a refused connection has closed, its terminate command was
\* encoded, and another connection is in the table
C4_Witness ==
    \E c \in Conns :
        /\ Refused(c) /\ pc[c] = "closed" /\ sink[c] # <<>>
        /\ DOMAIN connMap # {}

\* C5: a disengage request whose source is not a key changes neither the
\* table nor a bucket nor the help list and writes to no encoder; after any
\* disengage request the source is not a key, so that a second one for the
\* same id is such a request.
C5_DisengageAbsent ==
    [][\A c \in Conns :
        (Takes(c) /\ Branch(Pending(c)) = "disengage") =>
            /\ Pending(c).q.source \notin DOMAIN connMap'
            /\ Pending(c).q.source \notin DOMAIN connMap =>
                   /\ connMap' = connMap
                   /\ buckets' = buckets
                   /\ help' = help
                   /\ sink' = sink /\ wire' = wire]_vars

\* C5 witness: a connection reached end of stream before engaging and its
\* disengage request, with the empty id, was handled while another
\* connection was in the table and had registered a responder
C5_Witness ==
    \E c \in Conns :
        /\ pc[c] = "done" /\ id[c] = ""
        /\ DOMAIN connMap # {}
        /\ prefixAResponders # <<>>

\* the dispatcher's receive met the send of invocation task t in this step
TakesTask(t) == t \in tasks /\ t.out # NoQuery /\ t \notin tasks'

\* what C6 says of the step that handles the directed message of req, where
\* running are the invocation tasks that go on
DirectedOk(req, running) ==
    Branch(req) = "directed" =>
        IF req.q.to \in DOMAIN connMap
          THEN sink' = [sink EXCEPT ![connMap[req.q.to]] = Append(@, req.q)]
          ELSE /\ sink' = sink /\ wire' = wire
               /\ connMap' = connMap
               /\ buckets' = buckets
               /\ help' = help
               /\ tasks' = running
               /\ dpc' = dpc /\ dout' = dout

\* C6: a message with to set and not "server" is appended, as it is, to the
\* log of the encoder that the table binds to its to, and to no other; when
\* to is not a key it is written to no encoder and the dispatcher's state is
\* as before.
C6_DirectedMessage ==
    [][/\ \A c \in Conns : Takes(c) => DirectedOk(Pending(c), tasks)
       /\ \A t \in tasks :
            TakesTask(t) => DirectedOk(Request(t.out, Nil, Nil), tasks \ {t})]_vars

\* C6 witness: a responder's message to "a" was taken by the dispatcher, no
\* connection ever held "a", another connection is in the table and nothing
\* but its proceed command was written to it
C6_Witness ==
    \E c, d \in Conns :
        /\ c # d
        /\ pc[c] = "run" /\ ~isAdapter[c]
        /\ sq[c].type = "message" /\ sq[c].to = "a"
        /\ \A e \in Conns : id[e] # "a"
        /\ id[d] \in DOMAIN connMap /\ connMap[id[d]] = d
        /\ Len(sink[d]) = 1 /\ Len(sink[c]) = 1

\* C7: a request that a read task sends after its handshake carries the id
\* that initialize returned as source; every message in an encoder's log
\* that a connection submitted carries that connection's id as source.
C7_SourceIsAssignedId ==
    /\ \A c \in Conns :
            (pc[c] \in {"send", "eof_send"} /\ id[c] # "") =>
                Pending(c).q.source = id[c]
    /\ \A c \in Conns : pc[c] = "send" => id[c] # ""
    /\ \A d \in Conns : \A i \in DOMAIN sink[d] :
            (sink[d][i].type = "message" /\ sink[d][i].origin \in Conns) =>
                sink[d][i].source = id[sink[d][i].origin]

\* C7 witness: a message that a client wrote with source "spoof" is in the
\* log of another connection's encoder
C7_Witness ==
    \E c, d \in Conns : \E i \in DOMAIN sink[d] :
        c # d /\ sink[d][i].type = "message" /\ sink[d][i].origin = c

IsRegister(e) == e.type = "command" /\ e.action = "register"

\* C8: an adapter's read task never sends a register command; a bucket or
\* the help list changes only when the dispatcher takes a register command
\* from a connection that is no adapter; a step in which an adapter's read
\* task decodes an envelope leaves it in its loop.
C8_AdapterRegister ==
    /\ [](\A c \in Conns :
            (isAdapter[c] /\ pc[c] = "send") => ~IsRegister(sq[c]))
    /\ [][/\ (buckets' # buckets \/ help' # help) =>
                \E c \in Conns : /\ Takes(c) /\ ~isAdapter[c]
                                 /\ IsRegister(Pending(c).q)
          /\ \A c \in Conns :
                (isAdapter[c] /\ pc[c] = "run" /\ decoded' = decoded + 1) =>
                    pc'[c] \in {"run", "send"}]_vars

\* C8 witness: an adapter whose register command was rejected is sending a
\* later envelope; no bucket and no help entry was added
C8_Witness ==
    \E c \in Conns :
        /\ isAdapter[c]
        /\ "Adapter cannot register commands" \in errlog[c]
        /\ pc[c] = "send"
        /\ buckets = <<<<>>, <<>>, <<>>, <<>>>> /\ help = InitHelp

\* what a responder may not send
NoDestination(e) == e.to = "" \/ (e.type = "message" /\ e.to = "server")

\* a step in which a read task that is no adapter decodes an envelope leaves
\* it in its loop and the table as it is
ResponderDecodes ==
    \A c \in Conns :
        (~isAdapter[c] /\ pc[c] = "run" /\ decoded' = decoded + 1) =>
            (pc'[c] \in {"run", "send"} /\ connMap' = connMap)

\* C9 as stated: no request that the read task of an engaged connection that
\* is no adapter sends has an empty to, or is a message to "server".
C9_Original ==
    /\ [](\A c \in Conns :
            (id[c] # "" /\ ~isAdapter[c] /\ pc[c] \in Sending) =>
                ~NoDestination(Pending(c).q))
    /\ [][ResponderDecodes]_vars

\* C9, amended: no envelope decoded from the client after the handshake that
\* has an empty to, or is a message to "server", is sent by the read task of
\* a connection that is no adapter (the disengage request that the read task
\* builds at end of stream has an empty to); decoding one leaves the read
\* task in its loop and the table as it is.
C9_ResponderDestination ==
    /\ [](\A c \in Conns :
            (~isAdapter[c] /\ pc[c] = "send") => ~NoDestination(sq[c]))
    /\ [][ResponderDecodes]_vars

\* C9 witness: a responder that had an envelope without to and a message to
\* "server" rejected is in its loop and in the table
C9_Witness ==
    \E c \in Conns :
        /\ ~isAdapter[c] /\ pc[c] = "run"
        /\ "Responder query missing 'to' field" \in errlog[c]
        /\ "Responder message cannot target 'server'" \in errlog[c]
        /\ id[c] \in DOMAIN connMap /\ connMap[id[c]] = c

\* C10: a request that an adapter's read task sends after the handshake has
\* an empty to unless it is an info command; no message that an adapter
\* submitted is in an encoder's log; the step that takes an adapter's
\* message starts a handleMessage task with the adapter's id and writes to
\* no encoder.
C10_AdapterTo ==
    /\ [](/\ \A c \in Conns :
                (isAdapter[c] /\ pc[c] \in {"send", "eof_send"}) =>
                    \/ Pending(c).q.to = ""
                    \/ Pending(c).q.type = "command" /\ Pending(c).q.action = "info"
          /\ \A d \in Conns : \A i \in DOMAIN sink[d] :
                (sink[d][i].type = "message" /\ sink[d][i].origin \in Conns) =>
                    ~isAdapter[sink[d][i].origin])
    /\ [][\A c \in Conns :
            (Takes(c) /\ isAdapter[c] /\ Pending(c).q.type = "message") =>
                /\ \E t \in tasks' \ tasks :
                        t.kind = "msg" /\ t.of = c /\ t.src = id[c]
                /\ sink' = sink]_vars

\* C10 witness: a handleMessage task runs for an adapter's message while
\* another connection holds "a" and only its proceed command was written
C10_Witness ==
    \E c, d \in Conns : \E t \in tasks :
        /\ c # d /\ isAdapter[c]
        /\ t.kind = "msg" /\ t.of = c
        /\ "a" \in DOMAIN connMap /\ connMap["a"] = d
        /\ Len(sink[d]) = 1

\* the active-responder bucket of a classification
Bucket(cls) ==
    CASE cls = "prefix" -> prefixAResponders
      [] cls = "noprefix" -> noPrefixAResponders
      [] cls = "mention" -> mentionAResponders
      [] cls = "unhandled" -> unhandledAResponders

\* the dispatcher takes from connection c a register command that passes
\* registerChk and whose pattern compiles
TakesRegister(c) ==
    /\ Takes(c)
    /\ Branch(Pending(c)) = "register"
    /\ RegisterOk(Pending(c).q)

\* the step appends the matcher of register command q, sent by connection c,
\* to the bucket its classification names and leaves the other three alone
AppendsMatcher(c, q) ==
    \A cls \in Classes :
        Bucket(cls)' =
            IF cls = q.ctype
              THEN Append(Bucket(cls),
                          [regex |-> q.data, source |-> id[c], id |-> q.cid,
                           matchNext |-> \E i \in DOMAIN q.options :
                                             q.options[i] = "fallthrough",
                           helpCmd |-> q.array[1], help |-> q.array[2]])
              ELSE Bucket(cls)

\* the help entry the claim describes for register command q
HelpEntry(q) ==
    [helpCmd |-> q.array[1], helpMsg |-> q.array[2],
     noPrefix |-> q.ctype = "noprefix", mention |-> q.ctype = "mention"]

\* C11 as stated: an accepted register command of any of the four
\* classifications appends exactly one help entry and appends the matcher to
\* the one bucket its classification names.
C11_Original ==
    [][\A c \in Conns :
        TakesRegister(c) =>
            /\ help' = Append(help, HelpEntry(Pending(c).q))
            /\ AppendsMatcher(c, Pending(c).q)]_vars

\* C11, amended: an accepted register command appends the matcher to the one
\* bucket its classification names, with the registering connection's id as
\* source and matchNext true iff options contains "fallthrough"; it appends
\* exactly one help entry (noPrefix iff noprefix, mention iff mention) when
\* the classification is prefix, noprefix or mention, and leaves the help
\* list as it is when the classification is unhandled.
C11_RegisterAppends ==
    [][\A c \in Conns :
        TakesRegister(c) =>
            /\ help' = IF Pending(c).q.ctype = "unhandled"
                         THEN help
                         ELSE Append(help, HelpEntry(Pending(c).q))
            /\ AppendsMatcher(c, Pending(c).q)]_vars

\* C11 witness: an unhandled responder with "fallthrough" among its options
\* and a mention responder are registered; the help list has the configured
\* entry and the mention responder's
C11_Witness ==
    /\ Len(unhandledAResponders) = 1 /\ unhandledAResponders[1].matchNext
    /\ Len(mentionAResponders) = 1 /\ ~mentionAResponders[1].matchNext
    /\ Len(help) = 2 /\ help[2].mention /\ ~help[2].noPrefix
    /\ prefixAResponders = <<>> /\ noPrefixAResponders = <<>>

\* register command q fails registerChk, or its pattern does not compile
Rejected(q) == IsRegister(q) /\ ~(RegisterChk(q) /\ Compiles(q.data))

\* C12: the step in which the dispatcher takes a register command that fails
\* registerChk, or whose pattern does not compile, changes no bucket, neither
\* the help list nor the connection table, writes to no encoder and leaves
\* the dispatcher at its receive; no bucket ever holds a pattern that does
\* not compile, and every help entry added after startup is the one of a
\* matcher in a bucket.
C12_RejectedRegister ==
    /\ [][\A c \in Conns :
            (Takes(c) /\ Rejected(Pending(c).q)) =>
                /\ buckets' = buckets
                /\ help' = help
                /\ connMap' = connMap
                /\ sink' = sink /\ wire' = wire
                /\ dpc' = "recv"]_vars
    /\ [](/\ \A cls \in Classes : \A i \in DOMAIN Bucket(cls) :
                Compiles(Bucket(cls)[i].regex)
          /\ \A i \in DOMAIN help :
                i > Len(InitHelp) =>
                    \E cls \in Classes : \E j \in DOMAIN Bucket(cls) :
                        /\ Bucket(cls)[j].helpCmd = help[i].helpCmd
                        /\ Bucket(cls)[j].help = help[i].helpMsg)

\* C12 witness: a connection that registered a prefix responder had a
\* register command with the pattern "(" taken by the dispatcher: the one
\* matcher and its help entry are all there is
C12_Witness ==
    \E c \in Conns :
        /\ pc[c] = "run" /\ IsRegister(sq[c]) /\ sq[c].data = "("
        /\ Len(prefixAResponders) = 1 /\ prefixAResponders[1].source = id[c]
        /\ Len(help) = 2
        /\ id[c] \in DOMAIN connMap

\* no connection-table entry is bound to the encoder of connection c
NoEntry(c) == \A k \in DOMAIN connMap : connMap[k] # c

\* C13: the read task of an engaged connection that reached end of stream is
\* sending a disengage command with the connection's id; with the dispatcher
\* scheduled fairly the request is taken, the read task exits and no entry
\* of the table is bound to the connection's encoder any more.
C13_EndOfStream ==
    /\ [](\A c \in Conns :
            (pc[c] = "eof_send" /\ id[c] # "") =>
                /\ Pending(c).q.type = "command"
                /\ Pending(c).q.action = "disengage"
                /\ Pending(c).q.source = id[c])
    /\ \A c \in Conns :
            (pc[c] = "eof_send" /\ id[c] # "") ~> (pc[c] = "done" /\ NoEntry(c))

\* the place of a chat text in the order the clients wrote the texts
Stamp(text) == CHOOSE i \in DOMAIN TextName : TextName[i] = text

\* C14: the dispatcher takes a request only when it is at its receive, with
\* the request before it finished: the directed message it takes is appended
\* to the destination's log in that very step, behind everything written to
\* it before; so, in every encoder's log, the messages that one connection
\* submitted stand in the order in which that connection sent them.
C14_RequestOrder ==
    /\ [][\A c \in Conns :
            Takes(c) =>
                /\ dpc = "recv"
                /\ (Branch(Pending(c)) = "directed"
                    /\ Pending(c).q.to \in DOMAIN connMap) =>
                        /\ sink' = [sink EXCEPT ![connMap[Pending(c).q.to]] =
                                        Append(@, Pending(c).q)]
                        /\ dpc' = "recv"]_vars
    /\ [](\A d \in Conns : \A i, j \in DOMAIN sink[d] :
            (/\ i < j
             /\ sink[d][i].type = "message" /\ sink[d][j].type = "message"
             /\ sink[d][i].origin = sink[d][j].origin) =>
                Stamp(sink[d][i].text) < Stamp(sink[d][j].text))

\* C14 witness: two messages that one connection sent to another are in the
\* destination's log, behind its proceed command, while a third connection
\* is engaged
C14_Witness ==
    \E c, d, e \in Conns :
        /\ c # d /\ e # c /\ e # d
        /\ Len(sink[d]) = 3
        /\ sink[d][2].origin = c /\ sink[d][3].origin = c
        /\ sink[d][2].text # sink[d][3].text
        /\ id[e] # ""

\* C15: the dispatcher is never stopped (logger.Error.Fatal) nor blocked for
\* good (a send on a nil reply channel); the step that takes a request sent
\* by a read task after its handshake, of any type and action, leaves the
\* dispatcher back at its receive.
C15_DispatcherReturns ==
    /\ [](dpc # "fatal" /\ dpc # "blocked")
    /\ [][\A c \in Conns :
            (Takes(c) /\ pc[c] \in {"send", "eof_send"}) => dpc' = "recv"]_vars

\* C16: the connection table, the buckets and the help list change only in a
\* step of the dispatcher (one that takes a request), and no invocation task
\* is in its pass over the buckets and the help list in a step in which the
\* dispatcher appends to one of them.
C16_RegistryOwner ==
    [][/\ (connMap' # connMap \/ buckets' # buckets \/ help' # help) =>
            \/ \E c \in Conns : Takes(c)
            \/ \E t \in tasks : TakesTask(t)
       /\ (buckets' # buckets \/ help' # help) =>
            \A t \in tasks : ~t.scanning]_vars

\* list s is the beginning of list t
IsPrefix(s, t) == Len(s) <= Len(t) /\ SubSeq(t, 1, Len(s)) = s

\* C17: no step removes or moves an entry of a bucket or of the help list:
\* each list, as it was before the step, is the beginning of the list after
\* the step.
C17_AppendOnly ==
    [][/\ \A cls \in Classes : IsPrefix(Bucket(cls), Bucket(cls)')
       /\ IsPrefix(help, help')]_vars

\* C17 witness: two connections registered a prefix responder each; the one
\* that registered first sent its disengage at end of stream and is no key
\* of the table any more; both matchers and both help entries are there, in
\* the order of registration, behind the configured help entry
C17_Witness ==
    \E c, d \in Conns :
        /\ c # d
        /\ pc[c] = "done" /\ id[c] # "" /\ id[c] \notin DOMAIN connMap
        /\ id[d] \in DOMAIN connMap
        /\ Len(prefixAResponders) = 2
        /\ prefixAResponders[1].source = id[c]
        /\ prefixAResponders[2].source = id[d]
        /\ Len(help) = 3 /\ help[1] = InitHelp[1]

\* connection c is engaged and has decoded nothing since its handshake (sq
\* still holds the engage command of the handshake, which names the kind of
\* client): it has neither sent a disengage nor reached end of stream
JustEngaged(c) ==
    /\ pc[c] = "run" /\ id[c] # ""
    /\ CheckEngagement(sq[c]) /\ sq[c].ctype \in {"adapter", "responder"}

\* C18: a disengage request removes no entry bound to the encoder of a
\* connection other than the one whose read task sent it; a connection that
\* is engaged and has neither sent a disengage nor reached end of stream has
\* its id mapped to its own encoder.
C18_OwnEntryOnly ==
    /\ [][\A c \in Conns :
            (Takes(c) /\ Branch(Pending(c)) = "disengage") =>
                \A k \in DOMAIN connMap \ DOMAIN connMap' : connMap[k] = c]_vars
    /\ [](\A c \in Conns :
            JustEngaged(c) =>
                (id[c] \in DOMAIN connMap /\ connMap[id[c]] = c))

\* C19: the step in which the dispatcher takes a handshake request gives
\* initialize one value on the reply channel, the assigned id or the empty
\* id, on every path; and the read task that is in initialize, sending the
\* request or waiting for the reply, is eventually released from it.
C19_HandshakeReply ==
    /\ [][\A c \in Conns :
            (Takes(c) /\ pc[c] = "hs_send") =>
                /\ pc'[c] \in {"run", "hs_fail"}
                /\ pc'[c] = "run" <=> id'[c] # ""]_vars
    /\ \A c \in Conns :
            (pc[c] = "hs_send") ~> (pc[c] \notin {"hs_send", "hs_wait"})

\* C20: when the read task of a connection whose handshake was refused has
\* called conn.Close(), the terminate command has reached the client's
\* socket: it is the one envelope on the wire.
C20_TerminateBeforeClose ==
    \A c \in Conns :
        (Refused(c) /\ Closed(c)) =>
            /\ Len(wire[c]) = 1
            /\ wire[c][1].type = "command" /\ wire[c][1].action = "terminate"

====
